---- MODULE Spec2Model ----
(***************************************************************************)
(* Model of the Page1 product table view                                   *)
(* (src/frontend/src/components/Page1.jsx): the component state, its three *)
(* effects (debounce, fetch products, reset page), the event handlers, the *)
(* outstanding HTTP requests and the catalog service they are sent to.     *)
(***************************************************************************)
EXTENDS Integers, Sequences, FiniteSets, TLC

VARIABLES
    products,             \* useState([])   : records shown in the table
    totalProducts,        \* useState(0)
    categories,           \* useState([])   : options of the category select
    isLoading,            \* useState(true)
    error,                \* useState(null)
    searchTerm,           \* useState('')
    debouncedSearchTerm,  \* useState('')
    categoryFilter,       \* useState('')
    sortBy,               \* useState(SORT_OPTIONS.DEFAULT)
    sortOrder,            \* useState(SORT_ORDER.ASC)
    currentPage,          \* useState(1)
    timer,                \* the pending setTimeout of the debounce effect
    requests,             \* outstanding product requests, in issue order
    catRequest,           \* the categories request: "pending", "done", "failed"
    catIssued,            \* history: number of categories requests issued
    shown,                \* history: the request whose response set products
    streak,               \* history: consecutive activations of one sort column,
                          \* consecutive keystrokes, or Clear Filters
    nEvents,              \* number of user interactions so far (bounded)
    pageItems             \* the rendered page-number list (pagination render)

vars == <<products, totalProducts, categories, isLoading, error, searchTerm,
          debouncedSearchTerm, categoryFilter, sortBy, sortOrder, currentPage,
          timer, requests, catRequest, catIssued, shown, streak,
          nEvents, pageItems>>

-----------------------------------------------------------------------------
(* Bounds of the model *)

CatalogSize == 104      \* records held by the catalog service
MaxEvents == 2          \* user interactions in one behaviour; the repeated
                        \* activations of one sort column count as one, and
                        \* so do the keystrokes of one burst; Clear Filters
                        \* may always follow
MaxBurst == 2           \* keystrokes in one burst
TickStep == 300         \* time units that pass in one Tick

(* Program constants *)

ITEMS_PER_PAGE == 10
DebounceDelay == 300
OverFetchLimit == 100

DEFAULT == "default"
PRICE == "price"
RATING == "rating"
STOCK == "stock"
TITLE == "title"
DISCOUNT == "discount"
SORT_OPTIONS == {DEFAULT, PRICE, RATING, STOCK, TITLE, DISCOUNT}
SortableColumns == {TITLE, PRICE, DISCOUNT, RATING, STOCK}
NumericColumns == {PRICE, DISCOUNT, RATING, STOCK}

ASC == "asc"
DESC == "desc"
SORT_ORDER == {ASC, DESC}

NoError == "null"
FetchErrorMessage == "Failed to fetch products. Please try again later."

NoTimer == [pending |-> FALSE]
NoRequest == [none |-> TRUE]

EmptyText == <<>>

Min(a, b) == IF a < b THEN a ELSE b
Max(a, b) == IF a > b THEN a ELSE b
Abs(a) == IF a < 0 THEN -a ELSE a
CeilDiv(a, b) == (a + b - 1) \div b

-----------------------------------------------------------------------------
(* Text: a string is a sequence of characters *)

Lower(ch) ==
    CASE ch = "A" -> "a"
      [] ch = "B" -> "b"
      [] ch = "C" -> "c"
      [] OTHER -> ch

ToLowerCase(s) == [i \in 1..Len(s) |-> Lower(s[i])]

\* s.includes(t)
Includes(s, t) ==
    \E k \in 0..(Len(s) - Len(t)) : SubSeq(s, k + 1, k + Len(t)) = t

-----------------------------------------------------------------------------
(* The catalog service *)

NoBrand == <<>>

Product(i) ==
    [id |-> i,
     title |-> IF i % 50 = 0 THEN <<"b", "B">>
               ELSE IF i % 50 = 25 THEN <<"b", "c">>
               ELSE IF i % 7 = 3 THEN <<"A", "b">>
               ELSE IF i % 2 = 0 THEN <<"a", "c">>
               ELSE <<"C", "a">>,
     description |-> IF i % 4 = 0 THEN <<"c", "b">> ELSE <<"c">>,
     brand |-> IF i % 50 = 25 THEN <<"A">>
               ELSE IF i % 5 = 0 THEN NoBrand ELSE <<"b">>,
     category |-> IF i % 3 = 0 THEN "beauty" ELSE "laptops",
     price |-> ((i * 7) % 5) + 1,
     discountPercentage |-> i % 3,
     rating |-> (i * 3) % 4,
     stock |-> (i * 11) % 6]

Catalog == [i \in 1..CatalogSize |-> Product(i)]

\* GET /categories: objects with a slug and a name
CatalogCategories ==
    <<[kind |-> "object", slug |-> "beauty", name |-> "Beauty"],
      [kind |-> "object", slug |-> "laptops", name |-> "Laptops"]>>

\* A record matches q when its title, description or brand contains q,
\* ignoring case.
Matches(p, q) ==
    LET t == ToLowerCase(q)
    IN \/ Includes(ToLowerCase(p.title), t)
       \/ Includes(ToLowerCase(p.description), t)
       \/ Includes(ToLowerCase(p.brand), t)

\* Array.prototype.slice(from, to), zero-based, end exclusive
Slice(s, from, to) == SubSeq(s, from + 1, Min(to, Len(s)))

\* GET /search?q=
SelectMatching(q) ==
    LET Test(p) == Matches(p, q) IN SelectSeq(Catalog, Test)

\* GET /category/<slug>
SelectCategory(c) ==
    LET Test(p) == p.category = c IN SelectSeq(Catalog, Test)

\* the texts the user types into the search input
SearchInputs == {EmptyText, <<"a">>, <<"a", "B">>}

CategorySlugs == {CatalogCategories[i].slug : i \in 1..Len(CatalogCategories)}

\* the lists the service answers from
SearchIndex == [q \in SearchInputs |-> SelectMatching(q)]
CategoryIndex == [c \in CategorySlugs |-> SelectCategory(c)]

Paged(all, limit, skip) ==
    [products |-> Slice(all, skip, skip + limit), total |-> Len(all)]

\* The response of the service to a query
Respond(query) ==
    CASE query.url = "products" -> Paged(Catalog, query.limit, query.skip)
      [] query.url = "search" ->
            Paged(SearchIndex[query.q], query.limit, query.skip)
      [] query.url = "category" ->
            Paged(CategoryIndex[query.category], query.limit, query.skip)

-----------------------------------------------------------------------------
(* fetchProducts: the query it builds *)

\* '' is the only falsy string: the search text is a sequence of characters,
\* the category a slug
TruthyText(s) == s # EmptyText
TruthySlug(c) == c # ""

PageSkip(cp) == (cp - 1) * ITEMS_PER_PAGE

\* mutant: search with category is paged by the service like the others
BuildQuery_BothPaged(dst, cf, cp) ==
    IF TruthyText(dst)
    THEN [url |-> "search", category |-> "", q |-> dst,
          limit |-> ITEMS_PER_PAGE, skip |-> PageSkip(cp)]
    ELSE IF TruthySlug(cf)
    THEN [url |-> "category", category |-> cf, q |-> EmptyText,
          limit |-> ITEMS_PER_PAGE, skip |-> PageSkip(cp)]
    ELSE [url |-> "products", category |-> "", q |-> EmptyText,
          limit |-> ITEMS_PER_PAGE, skip |-> PageSkip(cp)]

BuildQuery(dst, cf, cp) ==
    IF TruthyText(dst) /\ ~TruthySlug(cf)
    THEN [url |-> "search", category |-> "", q |-> dst,
          limit |-> ITEMS_PER_PAGE, skip |-> PageSkip(cp)]
    ELSE IF TruthySlug(cf) /\ ~TruthyText(dst)
    THEN [url |-> "category", category |-> cf, q |-> EmptyText,
          limit |-> ITEMS_PER_PAGE, skip |-> PageSkip(cp)]
    ELSE IF TruthyText(dst) /\ TruthySlug(cf)
    THEN [url |-> "search", category |-> "", q |-> dst,
          limit |-> OverFetchLimit, skip |-> 0]
    ELSE [url |-> "products", category |-> "", q |-> EmptyText,
          limit |-> ITEMS_PER_PAGE, skip |-> PageSkip(cp)]

\* One call of fetchProducts up to its await: the query sent and the values
\* of the render it closes over.
FetchRequest(cp, dst, cf, sb, so) ==
    [query |-> BuildQuery(dst, cf, cp),
     search |-> dst, category |-> cf, page |-> cp,
     sortBy |-> sb, sortOrder |-> so]

-----------------------------------------------------------------------------
(* fetchProducts: the sort applied to the fetched page *)

CharRank(ch) ==
    CASE Lower(ch) = "a" -> 1
      [] Lower(ch) = "b" -> 2
      [] OTHER -> 3

IsUpper(ch) == Lower(ch) # ch

RECURSIVE LexCompare(_, _, _)
\* compares s and t from position k on: letters first
LexCompare(s, t, k) ==
    IF k > Len(s) /\ k > Len(t) THEN 0
    ELSE IF k > Len(s) THEN -1
    ELSE IF k > Len(t) THEN 1
    ELSE IF CharRank(s[k]) < CharRank(t[k]) THEN -1
    ELSE IF CharRank(s[k]) > CharRank(t[k]) THEN 1
    ELSE LexCompare(s, t, k + 1)

RECURSIVE CaseCompare(_, _, _)
\* tie-break of equal letters: lower case before upper case
CaseCompare(s, t, k) ==
    IF k > Len(s) THEN 0
    ELSE IF ~IsUpper(s[k]) /\ IsUpper(t[k]) THEN -1
    ELSE IF IsUpper(s[k]) /\ ~IsUpper(t[k]) THEN 1
    ELSE CaseCompare(s, t, k + 1)

\* a.localeCompare(b)
LocaleCompare(s, t) ==
    IF LexCompare(s, t, 1) # 0 THEN LexCompare(s, t, 1) ELSE CaseCompare(s, t, 1)

Comparison(a, b, sb) ==
    CASE sb = PRICE -> a.price - b.price
      [] sb = RATING -> a.rating - b.rating
      [] sb = STOCK -> a.stock - b.stock
      [] sb = TITLE -> LocaleCompare(a.title, b.title)
      [] sb = DISCOUNT -> a.discountPercentage - b.discountPercentage
      [] OTHER -> 0

\* mutant: the direction is ignored
Comparator_IgnoresOrder(a, b, sb, so) == Comparison(a, b, sb)

Comparator(a, b, sb, so) ==
    IF so = ASC THEN Comparison(a, b, sb) ELSE -Comparison(a, b, sb)

\* mutant: a record whose key is already in the list is dropped
InsertSorted_DropsTies(s, x, sb, so) ==
    LET later == {j \in 1..Len(s) : Comparator(s[j], x, sb, so) > 0}
        at == IF later = {} THEN Len(s) + 1
              ELSE CHOOSE j \in later : \A k \in later : j <= k
    IN IF \E j \in 1..Len(s) : Comparator(s[j], x, sb, so) = 0 THEN s
       ELSE SubSeq(s, 1, at - 1) \o <<x>> \o SubSeq(s, at, Len(s))

\* x put into the sorted list s behind every element that is not greater
InsertSorted(s, x, sb, so) ==
    LET later == {j \in 1..Len(s) : Comparator(s[j], x, sb, so) > 0}
        at == IF later = {} THEN Len(s) + 1
              ELSE CHOOSE j \in later : \A k \in later : j <= k
    IN SubSeq(s, 1, at - 1) \o <<x>> \o SubSeq(s, at, Len(s))

RECURSIVE SortFrom(_, _, _, _, _)
SortFrom(done, s, k, sb, so) ==
    IF k > Len(s) THEN done
    ELSE SortFrom(InsertSorted(done, s[k], sb, so), s, k + 1, sb, so)

\* [...fetchedProducts].sort(comparator): Array.prototype.sort is stable
SortProducts(s, sb, so) ==
    IF sb # DEFAULT THEN SortFrom(<<>>, s, 1, sb, so) ELSE s

-----------------------------------------------------------------------------
(* fetchProducts: what it makes of the response *)

FilterCategory(s, cf) ==
    LET Test(p) == p.category = cf IN SelectSeq(s, Test)

\* the products and the total that a resolved request sets
ProcessResponse(req, resp) ==
    LET both == TruthyText(req.search) /\ TruthySlug(req.category)
        skip == PageSkip(req.page)
        filtered == IF both THEN FilterCategory(resp.products, req.category)
                    ELSE resp.products
        total == IF both THEN Len(filtered) ELSE resp.total
        fetched == IF both THEN Slice(filtered, skip, skip + ITEMS_PER_PAGE)
                   ELSE filtered
    IN [products |-> SortProducts(fetched, req.sortBy, req.sortOrder),
        total |-> total]

-----------------------------------------------------------------------------
(* Pagination calculations and the page-number list *)

TotalPagesOf(total) == CeilDiv(total, ITEMS_PER_PAGE)
totalPages == TotalPagesOf(totalProducts)

\* mutant: the neighbours of the current page are left out
VisiblePage_NoNeighbours(page, tp, cp) ==
    page = 1 \/ page = tp \/ page = cp

\* the pages that get a button
VisiblePage(page, tp, cp) ==
    page = 1 \/ page = tp \/ Abs(page - cp) <= 1

PageButtons(tp, cp) ==
    LET all == [i \in 1..tp |-> i]
        Test(page) == VisiblePage(page, tp, cp)
    IN SelectSeq(all, Test)

EllipsisMark == [kind |-> "ellipsis", page |-> 0]
PageButton(page) == [kind |-> "button", page |-> page]

RECURSIVE RenderFrom(_, _)
\* the fragments: an ellipsis in front of a button whose predecessor in the
\* list is not the page before it
RenderFrom(array, index) ==
    IF index > Len(array) THEN <<>>
    ELSE (IF index > 1 /\ array[index - 1] # array[index] - 1
          THEN <<EllipsisMark>> ELSE <<>>)
         \o <<PageButton(array[index])>> \o RenderFrom(array, index + 1)

PageNumberList(tp, cp) == RenderFrom(PageButtons(tp, cp), 1)

PaginationShown(total) == total > 0 /\ TotalPagesOf(total) > 1

-----------------------------------------------------------------------------
(* The effects *)

\* mutant: no dependency array, the effect runs with every render
CategoriesEffectRuns_EveryRender(mount) == TRUE

\* Fetch categories effect, deps []: it runs with the first render only
CategoriesEffectRuns(mount) == mount

\* Debounce effect, deps [searchTerm]: clears the pending timer and sets one
DebounceEffect(st, pending) ==
    IF st # searchTerm THEN [pending |-> TRUE, term |-> st, elapsed |-> 0]
    ELSE pending

FetchDepsChanged(cp, dst, cf, sb, so) ==
    <<cp, dst, cf, sb, so>> #
        <<currentPage, debouncedSearchTerm, categoryFilter, sortBy, sortOrder>>

\* mutant: the effect aborts the requests sent before
FetchEffect_AbortsEarlier(reqs, cp, dst, cf, sb, so) ==
    <<FetchRequest(cp, dst, cf, sb, so)>>

\* Fetch effect, deps [currentPage, debouncedSearchTerm, categoryFilter,
\* sortBy, sortOrder]: one more request is sent, none is cancelled
FetchEffect(reqs, cp, dst, cf, sb, so) ==
    Append(reqs, FetchRequest(cp, dst, cf, sb, so))

\* mutant: the effect is missing
ResetPageEffect_Missing(cp, dst, cf) == cp

\* Reset page effect, deps [debouncedSearchTerm, categoryFilter]
ResetPageEffect(cp, dst, cf) ==
    IF <<dst, cf>> # <<debouncedSearchTerm, categoryFilter>> THEN 1 ELSE cp

\* The requests outstanding after the render with the given state was
\* committed and its effects ran: the fetch effect, the reset page effect
\* and, when that one changed the page, the fetch effect of the next render.
RequestsAfter(cp, dst, cf, sb, so) ==
    LET first == IF FetchDepsChanged(cp, dst, cf, sb, so)
                 THEN FetchEffect(requests, cp, dst, cf, sb, so)
                 ELSE requests
        page == ResetPageEffect(cp, dst, cf)
    IN IF page # cp THEN FetchEffect(first, page, dst, cf, sb, so) ELSE first

\* A state update is committed: the state the component has once the
\* effects it triggers have run.
Commit(st, dst, cf, sb, so, cp, pending) ==
    LET reqs == RequestsAfter(cp, dst, cf, sb, so)
        fetched == Len(reqs) > Len(requests)
    IN /\ searchTerm' = st
       /\ debouncedSearchTerm' = dst
       /\ categoryFilter' = cf
       /\ sortBy' = sb
       /\ sortOrder' = so
       /\ currentPage' = ResetPageEffect(cp, dst, cf)
       /\ timer' = DebounceEffect(st, pending)
       /\ requests' = reqs
       /\ isLoading' = IF fetched THEN TRUE ELSE isLoading
       /\ error' = IF fetched THEN NoError ELSE error
       /\ catIssued' = IF CategoriesEffectRuns(FALSE) THEN catIssued + 1
                       ELSE catIssued
       /\ catRequest' = IF CategoriesEffectRuns(FALSE) THEN "pending"
                        ELSE catRequest

NoStreak == [column |-> DEFAULT, n |-> 0]

\* Clear Filters was the last interaction and, since then, every request
\* answered was the oldest one outstanding and none failed
Cleared == [column |-> "clear", n |-> 1]

StreakAfterAnswer(inOrder) ==
    IF streak = Cleared /\ ~inOrder THEN NoStreak ELSE streak

-----------------------------------------------------------------------------
(* What the user can reach *)

ErrorView == error # NoError
TableShown == ~ErrorView /\ ~isLoading
PaginationUsable == TableShown /\ PaginationShown(totalProducts)
MayInteract == nEvents < MaxEvents

-----------------------------------------------------------------------------
(* The handlers *)

\* mutant: the third activation toggles back to ascending
HandleSortState_TwoState(sb, so, column) ==
    IF sb # column THEN <<column, ASC>>
    ELSE IF so = ASC THEN <<sb, DESC>>
    ELSE <<sb, ASC>>

\* mutant: a new column keeps the direction of the old one
HandleSortState_KeepsOrder(sb, so, column) ==
    IF sb # column THEN <<column, so>>
    ELSE IF so = ASC THEN <<sb, DESC>>
    ELSE <<DEFAULT, ASC>>

\* mutant: the third activation leaves the direction descending
HandleSortState_KeepsDesc(sb, so, column) ==
    IF sb # column THEN <<column, ASC>>
    ELSE IF so = ASC THEN <<sb, DESC>>
    ELSE <<DEFAULT, so>>

\* handleSort: the sort state after the column is activated
HandleSortState(sb, so, column) ==
    IF sb # column THEN <<column, ASC>>
    ELSE IF so = ASC THEN <<sb, DESC>>
    ELSE <<DEFAULT, ASC>>

\* a further activation of the column activated last, within one cycle
ContinuesCycle(column) == streak.column = column /\ streak.n \in 1..2

HandleSort(column) ==
    LET next == HandleSortState(sortBy, sortOrder, column)
    IN /\ MayInteract \/ ContinuesCycle(column)
       /\ TableShown
       /\ Commit(searchTerm, debouncedSearchTerm, categoryFilter,
                 next[1], next[2], currentPage, timer)
       /\ streak' = IF ContinuesCycle(column)
                    THEN [column |-> column, n |-> streak.n + 1]
                    ELSE [column |-> column, n |-> 1]
       /\ nEvents' = IF ContinuesCycle(column) THEN nEvents ELSE nEvents + 1
       /\ UNCHANGED <<products, totalProducts, categories, shown, pageItems>>

\* Clear Filters is idempotent: it may also follow the last interaction
HandleClearFilters ==
    /\ ~ErrorView
    /\ Commit(EmptyText, debouncedSearchTerm, "", DEFAULT, ASC, 1, timer)
    /\ streak' = Cleared
    /\ nEvents' = Min(nEvents + 1, MaxEvents)
    /\ UNCHANGED <<products, totalProducts, categories, shown, pageItems>>

\* a further keystroke while the timer of the previous one is pending
ContinuesBurst ==
    streak.column = "search" /\ streak.n < MaxBurst /\ timer.pending

HandleSearchChange(value) ==
    /\ MayInteract \/ ContinuesBurst
    /\ ~ErrorView
    /\ value # searchTerm
    /\ Commit(value, debouncedSearchTerm, categoryFilter, sortBy, sortOrder,
              currentPage, timer)
    /\ streak' = IF ContinuesBurst
                 THEN [column |-> "search", n |-> streak.n + 1]
                 ELSE [column |-> "search", n |-> 1]
    /\ nEvents' = IF ContinuesBurst THEN nEvents ELSE nEvents + 1
    /\ UNCHANGED <<products, totalProducts, categories, shown, pageItems>>

\* the options of the select: All Categories and the fetched categories
CategoryOptions == {""} \cup {categories[i] : i \in 1..Len(categories)}

HandleCategoryChange(value) ==
    /\ MayInteract
    /\ ~ErrorView
    /\ value \in CategoryOptions
    /\ value # categoryFilter
    /\ Commit(searchTerm, debouncedSearchTerm, value, sortBy, sortOrder,
              currentPage, timer)
    /\ streak' = NoStreak
    /\ nEvents' = nEvents + 1
    /\ UNCHANGED <<products, totalProducts, categories, shown, pageItems>>

PrevPage(prev) == Max(prev - 1, 1)
NextPage(prev, tp) == Min(prev + 1, tp)

SetPage(page) ==
    /\ Commit(searchTerm, debouncedSearchTerm, categoryFilter, sortBy,
              sortOrder, page, timer)
    /\ streak' = NoStreak
    /\ nEvents' = nEvents + 1
    /\ UNCHANGED <<products, totalProducts, categories, shown, pageItems>>

HandlePageChange(page) ==
    /\ MayInteract
    /\ PaginationUsable
    /\ page \in 1..totalPages
    /\ VisiblePage(page, totalPages, currentPage)
    /\ page # currentPage
    /\ SetPage(page)

HandlePrevPage ==
    /\ MayInteract
    /\ PaginationUsable
    /\ currentPage # 1
    /\ SetPage(PrevPage(currentPage))

HandleNextPage ==
    /\ MayInteract
    /\ PaginationUsable
    /\ currentPage # totalPages
    /\ SetPage(NextPage(currentPage, totalPages))

-----------------------------------------------------------------------------
(* Time and the debounce timer *)

Tick ==
    /\ timer.pending
    /\ timer.elapsed < DebounceDelay
    /\ timer' = [timer EXCEPT !.elapsed = Min(@ + TickStep, DebounceDelay)]
    /\ UNCHANGED <<products, totalProducts, categories, isLoading, error,
                   searchTerm, debouncedSearchTerm, categoryFilter, sortBy,
                   sortOrder, currentPage, requests, catRequest, catIssued,
                   shown, streak, nEvents, pageItems>>

\* the timeout callback: setDebouncedSearchTerm(searchTerm)
TimerFire ==
    /\ timer.pending
    /\ timer.elapsed = DebounceDelay
    /\ Commit(searchTerm, timer.term, categoryFilter, sortBy, sortOrder,
              currentPage, NoTimer)
    /\ streak' = IF streak # Cleared
                    /\ (\/ timer.term # debouncedSearchTerm
                        \/ streak.column = "search")
                 THEN NoStreak ELSE streak
    /\ UNCHANGED <<products, totalProducts, categories, shown, nEvents,
                   pageItems>>

-----------------------------------------------------------------------------
(* The requests come back *)

RemoveAt(s, k) == SubSeq(s, 1, k - 1) \o SubSeq(s, k + 1, Len(s))

\* the response of request k arrives: the rest of fetchProducts runs
ResolveProducts(k) ==
    /\ k \in 1..Len(requests)
    /\ LET req == requests[k]
           out == ProcessResponse(req, Respond(req.query))
       IN /\ products' = out.products
          /\ totalProducts' = out.total
          /\ shown' = req
    /\ isLoading' = FALSE
    /\ requests' = RemoveAt(requests, k)
    /\ streak' = StreakAfterAnswer(k = 1)
    /\ UNCHANGED <<categories, error, searchTerm, debouncedSearchTerm,
                   categoryFilter, sortBy, sortOrder, currentPage, timer,
                   catRequest, catIssued, nEvents, pageItems>>

\* mutant: the loading flag is cleared on success only
FailProducts_KeepsLoading(k) ==
    /\ k \in 1..Len(requests)
    /\ error' = FetchErrorMessage
    /\ requests' = RemoveAt(requests, k)
    /\ streak' = StreakAfterAnswer(FALSE)
    /\ UNCHANGED <<products, totalProducts, categories, isLoading,
                   searchTerm, debouncedSearchTerm, categoryFilter, sortBy,
                   sortOrder, currentPage, timer, catRequest, catIssued,
                   shown, nEvents, pageItems>>

\* mutant: the catch only logs, as the one of fetchCategories
FailProducts_LogsOnly(k) ==
    /\ k \in 1..Len(requests)
    /\ isLoading' = FALSE
    /\ requests' = RemoveAt(requests, k)
    /\ streak' = StreakAfterAnswer(FALSE)
    /\ UNCHANGED <<products, totalProducts, categories, error, searchTerm,
                   debouncedSearchTerm, categoryFilter, sortBy, sortOrder,
                   currentPage, timer, catRequest, catIssued, shown,
                   nEvents, pageItems>>

\* request k fails: catch and finally of fetchProducts
FailProducts(k) ==
    /\ k \in 1..Len(requests)
    /\ error' = FetchErrorMessage
    /\ isLoading' = FALSE
    /\ requests' = RemoveAt(requests, k)
    /\ streak' = StreakAfterAnswer(FALSE)
    /\ UNCHANGED <<products, totalProducts, categories, searchTerm,
                   debouncedSearchTerm, categoryFilter, sortBy, sortOrder,
                   currentPage, timer, catRequest, catIssued, shown,
                   nEvents, pageItems>>

CategoryList(data) ==
    [i \in 1..Len(data) |->
        IF data[i].kind = "string" THEN data[i].value ELSE data[i].slug]

ResolveCategories ==
    /\ catRequest = "pending"
    /\ catRequest' = "done"
    /\ categories' = CategoryList(CatalogCategories)
    /\ UNCHANGED <<products, totalProducts, isLoading, error, searchTerm,
                   debouncedSearchTerm, categoryFilter, sortBy, sortOrder,
                   currentPage, timer, requests, catIssued, shown,
                   streak, nEvents, pageItems>>

\* the catch of fetchCategories only logs
FailCategories ==
    /\ catRequest = "pending"
    /\ catRequest' = "failed"
    /\ UNCHANGED <<products, totalProducts, categories, isLoading, error,
                   searchTerm, debouncedSearchTerm, categoryFilter, sortBy,
                   sortOrder, currentPage, timer, requests, catIssued, shown,
                   streak, nEvents, pageItems>>

-----------------------------------------------------------------------------
(* Mount, reload, and the specification *)

\* the state after the first render and its effects
Mounted ==
    /\ products = <<>>
    /\ totalProducts = 0
    /\ categories = <<>>
    /\ isLoading = TRUE
    /\ error = NoError
    /\ searchTerm = EmptyText
    /\ debouncedSearchTerm = EmptyText
    /\ categoryFilter = ""
    /\ sortBy = DEFAULT
    /\ sortOrder = ASC
    /\ currentPage = 1
    /\ timer = [pending |-> TRUE, term |-> EmptyText, elapsed |-> 0]
    /\ requests = <<FetchRequest(1, EmptyText, "", DEFAULT, ASC)>>
    /\ catRequest = "pending"
    /\ catIssued = 1
    /\ shown = NoRequest
    /\ streak = NoStreak
    /\ pageItems = <<>>

Init == Mounted /\ nEvents = 0

\* the Retry button of the error view: window.location.reload()
Reload ==
    /\ MayInteract
    /\ ErrorView
    /\ products' = <<>>
    /\ totalProducts' = 0
    /\ categories' = <<>>
    /\ isLoading' = TRUE
    /\ error' = NoError
    /\ searchTerm' = EmptyText
    /\ debouncedSearchTerm' = EmptyText
    /\ categoryFilter' = ""
    /\ sortBy' = DEFAULT
    /\ sortOrder' = ASC
    /\ currentPage' = 1
    /\ timer' = [pending |-> TRUE, term |-> EmptyText, elapsed |-> 0]
    /\ requests' = <<FetchRequest(1, EmptyText, "", DEFAULT, ASC)>>
    /\ catRequest' = "pending"
    /\ catIssued' = 1
    /\ shown' = NoRequest
    /\ streak' = NoStreak
    /\ pageItems' = <<>>
    /\ nEvents' = nEvents + 1

Next ==
    \/ \E column \in SortableColumns : HandleSort(column)
    \/ HandleClearFilters
    \/ \E value \in SearchInputs : HandleSearchChange(value)
    \/ \E value \in CategoryOptions : HandleCategoryChange(value)
    \/ \E page \in 1..totalPages : HandlePageChange(page)
    \/ HandlePrevPage
    \/ HandleNextPage
    \/ Tick
    \/ TimerFire
    \/ \E k \in 1..Len(requests) : ResolveProducts(k)
    \/ \E k \in 1..Len(requests) : FailProducts(k)
    \/ ResolveCategories
    \/ FailCategories
    \/ Reload

Spec == Init /\ [][Next]_vars

\* the steps of ResolveProducts and FailProducts: an outstanding product
\* request is answered, with a response or with an error
ProductsAnswered ==
    \E k \in 1..Len(requests) :
        requests' = RemoveAt(requests, k) /\ nEvents' = nEvents

\* The timer callback runs once its delay has passed and every request sent
\* is answered; the user's gestures are not forced to happen.
SpecLive ==
    /\ Init
    /\ [][Next]_vars
    /\ WF_vars(Tick)
    /\ WF_vars(TimerFire)
    /\ WF_<<requests, nEvents>>(ProductsAnswered)

-----------------------------------------------------------------------------
(* The pagination render on its own: the view once the first page load of  *)
(* a catalog of any size up to CatalogSize has resolved, on any page.      *)

FirstRecords(total) == SubSeq(Catalog, 1, total)

InitRender ==
    /\ totalProducts \in 0..CatalogSize
    /\ currentPage \in 1..Max(1, TotalPagesOf(totalProducts))
    /\ products = Slice(FirstRecords(totalProducts), PageSkip(currentPage),
                        PageSkip(currentPage) + ITEMS_PER_PAGE)
    /\ categories = CategoryList(CatalogCategories)
    /\ isLoading = FALSE
    /\ error = NoError
    /\ searchTerm = EmptyText
    /\ debouncedSearchTerm = EmptyText
    /\ categoryFilter = ""
    /\ sortBy = DEFAULT
    /\ sortOrder = ASC
    /\ timer = NoTimer
    /\ requests = <<>>
    /\ catRequest = "done"
    /\ catIssued = 1
    /\ shown = FetchRequest(currentPage, EmptyText, "", DEFAULT, ASC)
    /\ streak = NoStreak
    /\ nEvents = 0
    /\ pageItems = <<>>

\* the page numbers block of the pagination controls
RenderPageNumbers ==
    /\ PaginationUsable
    /\ pageItems' = PageNumberList(totalPages, currentPage)
    /\ UNCHANGED <<products, totalProducts, categories, isLoading, error,
                   searchTerm, debouncedSearchTerm, categoryFilter, sortBy,
                   sortOrder, currentPage, timer, requests, catRequest,
                   catIssued, shown, streak, nEvents>>

NextRender == RenderPageNumbers

SpecRender == InitRender /\ [][NextRender]_vars

-----------------------------------------------------------------------------
(* Properties *)

Displayed == shown # NoRequest
AllAnswered == requests = <<>> /\ ~isLoading /\ error = NoError

\* the page as the catalog returns it, before any sort
UnsortedPage(dst, cf, cp) ==
    ProcessResponse(FetchRequest(cp, dst, cf, DEFAULT, ASC),
                    Respond(BuildQuery(dst, cf, cp))).products

\* C1: each activation of a column c by handleSort moves the sort state one
\* step round the cycle: from (default, asc) to (c, asc), from (c, asc) to
\* (c, desc), from (c, desc) back to (default, asc); for every sortable column.
SortCycle ==
    [][\A c \in SortableColumns :
         HandleSort(c) =>
           /\ (sortBy = DEFAULT /\ sortOrder = ASC)
                => (sortBy' = c /\ sortOrder' = ASC)
           /\ (sortBy = c /\ sortOrder = ASC)
                => (sortBy' = c /\ sortOrder' = DESC)
           /\ (sortBy = c /\ sortOrder = DESC)
                => (sortBy' = DEFAULT /\ sortOrder' = ASC)]_vars

\* a column was activated three times in a row and the sort state is unsorted
SortCycleDone ==
    /\ streak.column \in SortableColumns
    /\ streak.n = 3
    /\ sortBy = DEFAULT
    /\ sortOrder = ASC

\* C2: activating a column other than the active sort column gives
\* (that column, ascending), whatever the column and direction before.
OtherColumnAscending ==
    [][\A c \in SortableColumns :
         (HandleSort(c) /\ sortBy # c)
           => (sortBy' = c /\ sortOrder' = ASC)]_vars

\* a column was just activated while the table showed another column
\* descending
OtherColumnAfterDescending ==
    /\ streak.column \in SortableColumns
    /\ streak.n = 1
    /\ sortBy = streak.column
    /\ sortOrder = ASC
    /\ Displayed
    /\ shown.sortBy \notin {DEFAULT, sortBy}
    /\ shown.sortOrder = DESC
    /\ Len(requests) = 1

\* C3: after three activations in a row of one column, with search,
\* category and page unchanged and every request answered, the sort state is
\* unsorted and the list shown is the page in the order the catalog returns
\* it.
ThreeActivationsRestoreOrder ==
    (streak.column \in SortableColumns /\ streak.n = 3 /\ AllAnswered)
      => /\ sortBy = DEFAULT
         /\ products =
              UnsortedPage(debouncedSearchTerm, categoryFilter, currentPage)

\* C4: a step that changes the category filter or the debounced search term
\* leaves the current page at 1, and so does Clear Filters.
FilterChangeResetsPage ==
    [][/\ (\/ categoryFilter' # categoryFilter
           \/ debouncedSearchTerm' # debouncedSearchTerm) => currentPage' = 1
       /\ HandleClearFilters => currentPage' = 1]_vars

\* the filter was changed on a page N>1: the request of the fetch effect that
\* ran before the reset is still out, and the page is 1
PageWasReset ==
    /\ currentPage = 1
    /\ \E k \in 1..Len(requests) :
         /\ requests[k].page > 1
         /\ requests[k].search = debouncedSearchTerm
         /\ requests[k].category = categoryFilter
         /\ TruthyText(debouncedSearchTerm) \/ TruthySlug(categoryFilter)

\* C5: every request sent has the query shape its search term s, category c
\* and page p select: plain listing, search, category, or, with both s and c,
\* search with limit 100 and skip 0.
QueryShapeOf(r) ==
    LET s == r.search
        c == r.category
        paged == r.query.limit = 10 /\ r.query.skip = (r.page - 1) * 10
    IN /\ (s = EmptyText /\ c = "")
            => (r.query.url = "products" /\ paged)
       /\ (s # EmptyText /\ c = "")
            => (r.query.url = "search" /\ r.query.q = s /\ paged)
       /\ (s = EmptyText /\ c # "")
            => (r.query.url = "category" /\ r.query.category = c /\ paged)
       /\ (s # EmptyText /\ c # "")
            => /\ r.query.url = "search"
               /\ r.query.q = s
               /\ r.query.limit = 100
               /\ r.query.skip = 0

FourQueryShapes ==
    \A k \in 1..Len(requests) : QueryShapeOf(requests[k])

\* a request with a search term and a category is out
BothFiltersRequested ==
    \E k \in 1..Len(requests) :
        /\ requests[k].search # EmptyText
        /\ requests[k].category # ""
        /\ requests[k].query.limit = 100

SetOf(s) == {s[i] : i \in 1..Len(s)}

\* C6: with a search term and a category, the total is the number of catalog
\* records that match the term and have the category, and the page shown
\* holds items [(p-1)*10, p*10) of that list: no matching record is left out.
SearchWithCategoryComplete ==
    (Displayed /\ TruthyText(shown.search) /\ TruthySlug(shown.category))
      => LET full == FilterCategory(SelectMatching(shown.search),
                                    shown.category)
             page == Slice(full, (shown.page - 1) * 10, shown.page * 10)
         IN /\ totalProducts = Len(full)
            /\ Len(products) = Len(page)
            /\ SetOf(products) = SetOf(page)

Key(p, col) ==
    CASE col = PRICE -> p.price
      [] col = RATING -> p.rating
      [] col = STOCK -> p.stock
      [] col = DISCOUNT -> p.discountPercentage

IndexOf(s, p) == CHOOSE i \in 1..Len(s) : s[i].id = p.id

Opposite(so) == IF so = ASC THEN DESC ELSE ASC

\* C7: a page fetched with a numeric sort column is shown in monotonic order
\* of that column (non-decreasing ascending, non-increasing descending),
\* records with equal keys stay in fetched order, and the other direction
\* puts every pair of records with unequal keys the other way round.
NumericSortMonotonicStable ==
    (Displayed /\ shown.sortBy \in NumericColumns)
      => LET col == shown.sortBy
             fetched == UnsortedPage(shown.search, shown.category, shown.page)
             other == SortProducts(fetched, col, Opposite(shown.sortOrder))
         IN /\ Len(products) = Len(fetched)
            /\ SetOf(products) = SetOf(fetched)
            /\ \A i, j \in 1..Len(products) :
                 i < j =>
                   LET ki == Key(products[i], col)
                       kj == Key(products[j], col)
                   IN /\ shown.sortOrder = ASC => ki <= kj
                      /\ shown.sortOrder = DESC => ki >= kj
                      /\ ki = kj => IndexOf(fetched, products[i])
                                      < IndexOf(fetched, products[j])
                      /\ ki # kj => IndexOf(other, products[i])
                                      > IndexOf(other, products[j])

\* a full page is shown sorted descending by a numeric column, with ties and
\* with unequal keys, and the catalog did not return it in that order
SortedPageWithTies ==
    /\ Displayed
    /\ shown.sortBy \in NumericColumns
    /\ shown.sortOrder = DESC
    /\ Len(products) = ITEMS_PER_PAGE
    /\ products # UnsortedPage(shown.search, shown.category, shown.page)
    /\ \E i, j \in 1..Len(products) :
         i < j /\ Key(products[i], shown.sortBy) = Key(products[j], shown.sortBy)
    /\ \E i, j \in 1..Len(products) :
         i < j /\ Key(products[i], shown.sortBy) # Key(products[j], shown.sortBy)

IsButton(item) == item.kind = "button"

\* C8: the page-number list shows, in ascending order and once each, the
\* pages of {1, totalPages, currentPage-1, currentPage, currentPage+1} that
\* lie in 1..totalPages, with an ellipsis exactly between two listed pages
\* that are not adjacent numbers; 10 pages on page 5 give 1 ... 4 5 6 ... 10.
PageNumberListCorrect ==
    (pageItems # <<>> /\ totalPages > 1 /\ currentPage \in 1..totalPages)
      => LET tp == totalPages
             cp == currentPage
             wanted == {1, tp, cp - 1, cp, cp + 1} \cap (1..tp)
             buttons == SelectSeq(pageItems, IsButton)
             n == Len(pageItems)
         IN /\ {buttons[i].page : i \in 1..Len(buttons)} = wanted
            /\ \A i \in 1..(Len(buttons) - 1) :
                 buttons[i].page < buttons[i + 1].page
            /\ IsButton(pageItems[1])
            /\ IsButton(pageItems[n])
            /\ \A i \in 1..(n - 1) :
                 /\ (IsButton(pageItems[i]) /\ IsButton(pageItems[i + 1]))
                      => pageItems[i + 1].page = pageItems[i].page + 1
                 /\ (~IsButton(pageItems[i + 1]))
                      => /\ IsButton(pageItems[i])
                         /\ IsButton(pageItems[i + 2])
                         /\ pageItems[i + 2].page # pageItems[i].page + 1
            /\ (tp = 10 /\ cp = 5)
                 => pageItems = <<PageButton(1), EllipsisMark, PageButton(4),
                                  PageButton(5), PageButton(6), EllipsisMark,
                                  PageButton(10)>>

\* the list of 10 pages on page 5 is rendered, with its two ellipses
TenPagesOnPageFive ==
    /\ totalPages = 10
    /\ currentPage = 5
    /\ Len(pageItems) = 7
    /\ pageItems[2] = EllipsisMark
    /\ pageItems[6] = EllipsisMark

\* C9: no keystroke of a burst issues a product request, and the timer that
\* fires after the burst issues exactly one, after the full delay, with the
\* final search text.
BurstIsOneRequest ==
    [][/\ \A value \in SearchInputs :
            HandleSearchChange(value)
              => (requests' = requests
                  /\ debouncedSearchTerm' = debouncedSearchTerm)
       /\ (/\ TimerFire
           /\ streak.column = "search"
           /\ streak.n >= 2
           /\ debouncedSearchTerm' # debouncedSearchTerm)
            => /\ timer.elapsed = DebounceDelay
               /\ Len(requests') = Len(requests) + 1
               /\ requests'[Len(requests')].search = searchTerm]_vars

\* C10 as claimed: never more than one product request outstanding, and one
\* categories request.
OneOutstandingRequest == Len(requests) <= 1 /\ catIssued = 1

\* C10: the categories request is issued exactly once; product requests are
\* not limited to one at a time: a step either takes the one answered
\* request away, or adds the request of each run of the fetch effect (one,
\* or two when the page is reset) behind those outstanding, cancelling none.
RequestsAccumulate ==
    /\ [](catIssued = 1)
    /\ [][requests' # requests =>
            \/ Reload
            \/ \E k \in 1..Len(requests) : requests' = RemoveAt(requests, k)
            \/ /\ Len(requests') - Len(requests) \in {1, 2}
               /\ SubSeq(requests', 1, Len(requests)) = requests
               /\ requests'[Len(requests')] =
                    FetchRequest(currentPage', debouncedSearchTerm',
                                 categoryFilter', sortBy', sortOrder')]_vars

\* two product requests are outstanding, the categories are loaded
TwoRequestsOutstanding ==
    /\ Len(requests) >= 2
    /\ catRequest = "done"
    /\ catIssued = 1

\* the request the fetch effect sends for the current state
CurrentRequest ==
    FetchRequest(currentPage, debouncedSearchTerm, categoryFilter, sortBy,
                 sortOrder)

ResponseTo(req) == ProcessResponse(req, Respond(req.query))

\* C11: no product request is cancelled or tagged: a step that answers no
\* request leaves every outstanding one outstanding, and whichever
\* outstanding request is answered, its response becomes the products and
\* the total shown, whether or not it is the request of the current state.
StaleResponsesOverwrite ==
    [][/\ (Len(requests') >= Len(requests) /\ ~Reload)
            => SubSeq(requests', 1, Len(requests)) = requests
       /\ \A k \in 1..Len(requests) :
            (requests' = RemoveAt(requests, k) /\ error' = error
               /\ shown' = requests[k])
              => /\ products' = ResponseTo(requests[k]).products
                 /\ totalProducts' = ResponseTo(requests[k]).total]_vars

\* nothing is outstanding, and the records and the total shown are those of
\* a query that is not the one of the current state
StaleShown ==
    /\ AllAnswered
    /\ Displayed
    /\ shown # CurrentRequest
    /\ products # ResponseTo(CurrentRequest).products
    /\ totalProducts # ResponseTo(CurrentRequest).total

\* C12 as claimed: a failed request, the categories request included, puts
\* the view in the error state with the generic message.
AnyFailureShowsError ==
    [][/\ \A k \in 1..Len(requests) :
            FailProducts(k) => error' = FetchErrorMessage
       /\ FailCategories => error' = FetchErrorMessage]_vars

\* C12: a failed product request puts the view in the error state with the
\* generic message; a failed categories request is only logged and leaves
\* the error state and the categories as they are.
ProductFailureShowsError ==
    [][/\ \A k \in 1..Len(requests) :
            FailProducts(k) => (error' = FetchErrorMessage /\ ErrorView')
       /\ FailCategories => (error' = error /\ categories' = categories)]_vars

\* both requests have failed: the error view shows the message
BothRequestsFailed ==
    /\ catRequest = "failed"
    /\ error = FetchErrorMessage
    /\ categories = <<>>

\* C13: once the error is set it stays set until the page is reloaded.
ErrorStaysUntilReload ==
    [][ErrorView => (ErrorView' \/ Reload)]_vars

\* C14: whenever products are displayed (not loading, no error, a total
\* above 0) the current page lies in 1..totalPages.
PageInRange ==
    (~isLoading /\ ~ErrorView /\ totalProducts > 0)
      => currentPage \in 1..totalPages

\* C15: every request sent by a step that changes the search term or the
\* category is a request for page 1 (offset 0), never for the page viewed
\* before.
FilterChangeRequestsPageOne ==
    [][((\/ categoryFilter' # categoryFilter
         \/ debouncedSearchTerm' # debouncedSearchTerm) /\ ~Reload)
         => \A k \in (Len(requests) + 1)..Len(requests') :
              PageSkip(requests'[k].page) = 0]_vars

\* C16: isLoading is true whenever a product request is outstanding.
LoadingWhileOutstanding == requests # <<>> => isLoading

\* C17: the records shown and the total are those of the page the catalog
\* returns for the search term, category and page of the request, whatever
\* its sort column and direction: sorting only reorders them.
SortOnlyReorders ==
    Displayed
      => LET plain == ResponseTo(FetchRequest(shown.page, shown.search,
                                              shown.category, DEFAULT, ASC))
         IN /\ SetOf(products) = SetOf(plain.products)
            /\ Len(products) = Len(plain.products)
            /\ totalProducts = plain.total

\* a full page other than the first is shown sorted, in another order than
\* the catalog returned it
SortedLaterPage ==
    /\ Displayed
    /\ shown.sortBy # DEFAULT
    /\ shown.page > 1
    /\ Len(products) = ITEMS_PER_PAGE
    /\ products # UnsortedPage(shown.search, shown.category, shown.page)

\* C18: after Clear Filters, once the debounce timer has fired and every
\* request has been answered, in the order sent and none failing, the view
\* has empty search text, no category, sort (default, asc), page 1 and shows
\* the first page of the plain listing in catalog order.
ClearShowsPlainListing ==
    (streak = Cleared /\ ~timer.pending /\ requests = <<>>)
      => /\ searchTerm = EmptyText
         /\ debouncedSearchTerm = EmptyText
         /\ categoryFilter = ""
         /\ sortBy = DEFAULT
         /\ sortOrder = ASC
         /\ currentPage = 1
         /\ ~isLoading
         /\ ~ErrorView
         /\ products = Slice(Catalog, 0, ITEMS_PER_PAGE)
         /\ totalProducts = Len(Catalog)

\* C19: once the user has stopped and every product request sent is answered,
\* the view reaches and stays in a state that is not loading and has no
\* request outstanding.
EventuallyIdle == <>[](~isLoading /\ requests = <<>>)

\* the user has stopped, a request has failed, and the view is idle
IdleAfterFailure ==
    /\ nEvents = MaxEvents
    /\ ErrorView
    /\ ~timer.pending
    /\ requests = <<>>
    /\ ~isLoading

\* C20: in every reachable state the sort direction is ascending whenever
\* the sort column is the default one.
DefaultSortIsAscending == sortBy = DEFAULT => sortOrder = ASC

\* a descending listing is on screen and Clear Filters has reset the sort
ClearedAfterDescending ==
    /\ Displayed
    /\ shown.sortOrder = DESC
    /\ streak = Cleared
    /\ sortBy = DEFAULT

====
